---------------------------- MODULE Spec2Model ----------------------------
(***************************************************************************)
(* PointsTableSimulator (src/src/points_table_simulator/                   *)
(* points_table_simulator.py): the standings table computed from a         *)
(* tournament schedule (current_points_table) and the enumeration of the   *)
(* outcomes of the remaining matches                                       *)
(* (simulate_the_qualification_scenarios).                                 *)
(*                                                                         *)
(* A schedule is a sequence of rows, one per DataFrame row, in row order;  *)
(* row k of the sequence carries the index label k-1 of the default        *)
(* RangeIndex.  A winner of "" stands for a missing value (None / NaN),    *)
(* which the code reads through fillna("").                                *)
(***************************************************************************)
EXTENDS Integers, Sequences, FiniteSets, TLC

VARIABLES
    tournament_schedule,      \* self.tournament_schedule: the caller's DataFrame object
    points_for_a_win,         \* self.points_for_a_win
    points_for_a_draw,        \* self.points_for_a_draw
    points_for_a_no_result,   \* self.points_for_a_no_result
    team_name,                \* argument of simulate_the_qualification_scenarios
    top_x_position_in_the_table,   \* argument
    desired_number_of_scenarios,   \* argument
    teams,                    \* iteration order of the set `teams` (hash order of the run)
    argsort,                  \* the tie orders the run's sort has produced so far
    pc,                       \* "new" (before __init__), "idle", "loop" (inside the
                              \* for loop of simulate), "done"
    current_table,            \* value returned by the property current_points_table
    remaining_matches_in_the_schedule,
    initial_points_table,
    candidates_evaluated,     \* iterations of the outer for loop started so far
    updated_points_table,     \* the loop's local table after its sort
    temporary_schedule_df,    \* the loop's local copy of the schedule
    list_of_points_tables_for_qualification_scenarios,
    list_of_remaining_match_result_for_qualification_scenarios,
    raised,                   \* exception that ended the call, "" when it returned
    earlier_calls             \* what the earlier calls of simulate returned to the caller

vars == <<tournament_schedule, points_for_a_win, points_for_a_draw,
          points_for_a_no_result, team_name, top_x_position_in_the_table,
          desired_number_of_scenarios, teams, argsort, pc, current_table,
          remaining_matches_in_the_schedule, initial_points_table,
          candidates_evaluated, updated_points_table, temporary_schedule_df,
          list_of_points_tables_for_qualification_scenarios,
          list_of_remaining_match_result_for_qualification_scenarios, raised,
          earlier_calls>>

----------------------------------------------------------------------------
(* Bounds of the model *)

\* longest schedule
MaxMatches == 3
\* most pending matches of a schedule handed to simulate_the_qualification_scenarios
MaxPending == 2
\* largest desired_number_of_scenarios
MaxScenarios == 2

----------------------------------------------------------------------------
(* Values *)

TeamNames == {"A", "B", "C"}

\* a team name that is in no schedule
AbsentTeam == "Z"

\* missing winner (None / NaN), as fillna("") shows it
Pending == ""

\* missing home or away team (None / NaN)
MissingTeam == "NaN"

\* home and away team of the k-th row: the fixture list of the test schedules
Fixtures ==
    << <<"A", "B">>, <<"B", "C">>, <<"C", "A">>,
       <<"A", "C">>, <<"B", "A">>, <<"C", "B">> >>

Fixture(k) == Fixtures[((k - 1) % Len(Fixtures)) + 1]

\* results a row may hold: a participating team, a sentinel, or nothing yet
Results(k) == {Fixture(k)[1], Fixture(k)[2], "Draw", "No Result", Pending}

\* results without a sentinel
WinnerOrPending(k) == {Fixture(k)[1], Fixture(k)[2], Pending}

Permutations1(n) ==
    {p \in [1..n -> 1..n] : \A x \in 1..n : \E k \in 1..n : p[k] = x}

\* the match_number columns of an n-row schedule: 1..n in row order, or reversed
MatchNumberings(n) == {[k \in 1..n |-> k], [k \in 1..n |-> n + 1 - k]}

\* schedules of n rows; with_sentinels tells whether "Draw" and "No Result" occur
SchedulesOf(n, with_sentinels) ==
    {[k \in 1..n |-> [match_number |-> num[k], home |-> Fixture(k)[1],
                      away |-> Fixture(k)[2], winner |-> w[k]]] :
        num \in MatchNumberings(n),
        w \in {f \in [1..n -> TeamNames \cup {"Draw", "No Result", Pending}] :
                  \A k \in 1..n :
                      f[k] \in IF with_sentinels THEN Results(k) ELSE WinnerOrPending(k)}}

\* schedules of n rows of wins and pending matches, one of them without its home
\* or its away team
SchedulesWithMissingTeam(n) ==
    {[k \in 1..n |->
         IF k # row THEN schedule[k]
         ELSE IF column = "home" THEN [schedule[k] EXCEPT !.home = MissingTeam]
         ELSE [schedule[k] EXCEPT !.away = MissingTeam]] :
        schedule \in SchedulesOf(n, FALSE), row \in 1..n, column \in {"home", "away"}}

----------------------------------------------------------------------------
(* current_points_table *)

\* set(away.unique()).union(set(home.unique()))
TeamsOf(schedule) ==
    {schedule[k].away : k \in 1..Len(schedule)} \cup
    {schedule[k].home : k \in 1..Len(schedule)}

\* the orders in which a set of n teams may be iterated
IterationOrders(S) ==
    {[k \in 1..Cardinality(S) |-> f[k]] :
        f \in {g \in [1..Cardinality(S) -> S] :
                  \A x \in S : \E k \in 1..Cardinality(S) : g[k] = x}}

\* two of them: by name, ascending and descending
SomeIterationOrders(S) ==
    LET names == <<"A", "B", "C">>
        at(t) == CHOOSE i \in 1..Len(names) : names[i] = t
    IN  {o \in IterationOrders(S) :
            \/ \A j, k \in 1..Len(o) : j < k => at(o[j]) < at(o[k])
            \/ \A j, k \in 1..Len(o) : j < k => at(o[j]) > at(o[k])}

\* the rows of a schedule, by position
Rows(schedule) == 1..Len(schedule)

\* (away == team) | (home == team); a comparison with a missing value is False,
\* also when the value compared is itself missing
Involves(row, team) == team # MissingTeam /\ (row.away = team \/ row.home = team)

MatchesPlayed(schedule, team) ==
    Cardinality({k \in Rows(schedule) :
        Involves(schedule[k], team) /\ schedule[k].winner # Pending})

\* MatchesWon crediting a win to both participants of a match somebody won
MatchesWonMutBothParticipants(schedule, team) ==
    Cardinality({k \in Rows(schedule) :
        Involves(schedule[k], team)
            /\ schedule[k].winner \notin {"Draw", "No Result", Pending}})

MatchesWon(schedule, team) ==
    Cardinality({k \in Rows(schedule) :
        schedule[k].winner = team})

MatchesLost(schedule, team) ==
    Cardinality({k \in Rows(schedule) :
        Involves(schedule[k], team) /\ schedule[k].winner # team
            /\ schedule[k].winner # Pending})

MatchesDrawn(schedule, team) ==
    Cardinality({k \in Rows(schedule) :
        Involves(schedule[k], team) /\ schedule[k].winner = "Draw"})

MatchesWithNoResult(schedule, team) ==
    Cardinality({k \in Rows(schedule) :
        Involves(schedule[k], team) /\ schedule[k].winner = "No Result"})

\* RemainingMatches counting the pending matches of every team
RemainingMatchesMutAnyTeam(schedule, team) ==
    Cardinality({k \in Rows(schedule) : schedule[k].winner = Pending})

RemainingMatches(schedule, team) ==
    Cardinality({k \in Rows(schedule) :
        Involves(schedule[k], team) /\ schedule[k].winner = Pending})

\* Points with the values of a draw and of a no-result taken for each other
PointsMutDrawAsNoResult(won, drawn, no_result, for_win, for_draw, for_no_result) ==
    (won * for_win) + (drawn * for_no_result) + (no_result * for_draw)

Points(won, drawn, no_result, for_win, for_draw, for_no_result) ==
    (won * for_win) + (drawn * for_draw) + (no_result * for_no_result)

TeamPointsData(schedule, team, for_win, for_draw, for_no_result) ==
    [team |-> team,
     matches_played |-> MatchesPlayed(schedule, team),
     matches_won |-> MatchesWon(schedule, team),
     matches_lost |-> MatchesLost(schedule, team),
     matches_drawn |-> MatchesDrawn(schedule, team),
     matches_with_no_result |-> MatchesWithNoResult(schedule, team),
     remaining_matches |-> RemainingMatches(schedule, team),
     points |-> Points(MatchesWon(schedule, team), MatchesDrawn(schedule, team),
                       MatchesWithNoResult(schedule, team),
                       for_win, for_draw, for_no_result)]

\* the column of points of a table, top to bottom
PointsColumn(table) == [k \in 1..Len(table) |-> table[k].points]

(***************************************************************************)
(* sort_values(by="points", ascending=False) with the default              *)
(* kind="quicksort", which promises no order among equal keys.  The sort   *)
(* sees the points column only; an order it may produce is a permutation   *)
(* p (p[k] = position before the sort of the row placed k-th) that leaves  *)
(* the points non-increasing.  Within a run the sort is a function of the  *)
(* column: `argsort' keeps the order it gave for each column it has seen.  *)
(***************************************************************************)
SortOrders(column) ==
    {p \in Permutations1(Len(column)) :
        \A k \in 1..(Len(column) - 1) : column[p[k]] >= column[p[k + 1]]}

\* SortOrdersNow of a sort that may order equal points anew each time
SortOrdersNowMutForgetful(column, memo) == SortOrders(column)

\* the orders the run's sort can give for this column now
SortOrdersNow(column, memo) ==
    IF column \in DOMAIN memo THEN {memo[column]} ELSE SortOrders(column)

Remember(memo, column, p) ==
    IF column \in DOMAIN memo THEN memo ELSE memo @@ (column :> p)

\* take + reset_index(drop=True)
Reordered(table, p) == [k \in 1..Len(table) |-> table[p[k]]]

\* the list team_points_data, one entry per team in iteration order
UnsortedPointsTable(schedule, order, for_win, for_draw, for_no_result) ==
    [k \in 1..Len(order) |->
        TeamPointsData(schedule, order[k], for_win, for_draw, for_no_result)]


----------------------------------------------------------------------------
(* simulate_the_qualification_scenarios *)

\* rows whose winner is missing, as (home, away), in row order
FindRemainingMatchesInTheSchedule(schedule) ==
    LET pending == {k \in Rows(schedule) : schedule[k].winner = Pending}
        \* position of the j-th pending row
        nth[j \in 1..Cardinality(pending)] ==
            CHOOSE k \in pending : Cardinality({m \in pending : m < k}) = j - 1
    IN  [j \in 1..Cardinality(pending) |-> <<schedule[nth[j]].home, schedule[nth[j]].away>>]

\* itertools.product(*matches): the last match varies fastest, and each match
\* offers its tuple's entries in the tuple's order
RECURSIVE Product(_)
Product(matches) ==
    IF matches = <<>> THEN << <<>> >>
    ELSE LET rest == Product(Tail(matches))
             first == Head(matches)
         IN  [k \in 1..(Len(first) * Len(rest)) |->
                 <<first[((k - 1) \div Len(rest)) + 1]>> \o rest[((k - 1) % Len(rest)) + 1]]

\* len(schedule) - len(remaining) + 1
MatchNumberOfTheFirstRemainingMatch(schedule, remaining) ==
    Len(schedule) - Len(remaining) + 1

\* temporary_schedule_df.loc[first + match_number - 1, winner] = possible_winning_team,
\* for match_number = 0, 1, ...: the label first + match_number - 1 is row
\* first + match_number of the sequence
FilledSchedule(schedule, first, possible_results) ==
    [k \in Rows(schedule) |->
        IF k >= first /\ k - first + 1 <= Len(possible_results)
        THEN [schedule[k] EXCEPT !.winner = possible_results[k - first + 1]]
        ELSE schedule[k]]

UpdatePointsTable(points_table, home_team, away_team, winning_team, for_win) ==
    [k \in 1..Len(points_table) |->
        LET row == points_table[k]
            won == IF row.team = winning_team
                   THEN [row EXCEPT !.matches_won = @ + 1, !.points = @ + for_win]
                   ELSE row
            home == IF won.team = home_team
                    THEN [won EXCEPT !.matches_played = @ + 1] ELSE won
        IN  IF home.team = away_team
            THEN [home EXCEPT !.matches_played = @ + 1] ELSE home]

\* the inner for loop: the results of one candidate applied in order
RECURSIVE UpdatedPointsTable(_, _, _, _)
UpdatedPointsTable(points_table, remaining, possible_results, for_win) ==
    IF possible_results = <<>> THEN points_table
    ELSE UpdatedPointsTable(
             UpdatePointsTable(points_table, Head(remaining)[1], Head(remaining)[2],
                               Head(possible_results), for_win),
             Tail(remaining), Tail(possible_results), for_win)

\* positions of values[:top_x] in a column of n values
TopSlice(top_x, n) ==
    IF top_x >= 0 THEN 1..(IF top_x < n THEN top_x ELSE n) ELSE 1..(n + top_x)

\* InTopSlice with a slice one row longer
InTopSliceMutOneMore(team, table, top_x) ==
    \E k \in TopSlice(top_x + 1, Len(table)) : table[k].team = team

\* team_name in updated_points_table["team"].values[:top_x_position_in_the_table]
InTopSlice(team, table, top_x) ==
    \E k \in TopSlice(top_x, Len(table)) : table[k].team = team

\* EnoughScenarios with > for >=
EnoughScenariosMutStrict(list, desired) == Len(list) > desired

\* len(list) >= desired_number_of_scenarios: break
EnoughScenarios(list, desired) == Len(list) >= desired

\* ScheduleAfterIteration had the loop filled the schedule itself, not a copy
ScheduleAfterIterationMutNoCopy(schedule, filled) == filled

\* self.tournament_schedule after an iteration that filled its copy()
ScheduleAfterIteration(schedule, filled) == schedule

----------------------------------------------------------------------------
(* Inputs *)

\* (points_for_a_win, points_for_a_draw, points_for_a_no_result); the first is
\* the rule of the tests
ScoringRules == {<<3, 1, 1>>, <<2, 1, 0>>, <<3, 2, 1>>}

DefaultRule == <<3, 1, 1>>

\* (team_name, top_x_position_in_the_table, desired_number_of_scenarios): every
\* combination the specification accepts for three teams, and the combinations
\* with one argument it rejects
Arguments ==
    (TeamNames \X (1..Cardinality(TeamNames)) \X (1..MaxScenarios))
    \cup ({AbsentTeam} \X {1} \X {1})
    \cup ({"A"} \X {-1, 0, Cardinality(TeamNames) + 1} \X (1..MaxScenarios))
    \cup ({"A"} \X (1..2) \X {0})

InitCommon ==
    /\ argsort = [c \in {} |-> c]
    /\ pc = "idle"
    /\ current_table = <<>>
    /\ remaining_matches_in_the_schedule = <<>>
    /\ initial_points_table = <<>>
    /\ candidates_evaluated = 0
    /\ updated_points_table = <<>>
    /\ temporary_schedule_df = <<>>
    /\ list_of_points_tables_for_qualification_scenarios = <<>>
    /\ list_of_remaining_match_result_for_qualification_scenarios = <<>>
    /\ raised = ""
    /\ earlier_calls = <<>>

\* a simulator built from a schedule of wins and pending matches, and one call
Init ==
    /\ \E n \in 1..MaxMatches : tournament_schedule \in SchedulesOf(n, FALSE)
    /\ Cardinality({k \in Rows(tournament_schedule) :
                        tournament_schedule[k].winner = Pending}) <= MaxPending
    /\ points_for_a_win = DefaultRule[1]
    /\ points_for_a_draw = DefaultRule[2]
    /\ points_for_a_no_result = DefaultRule[3]
    /\ \E a \in Arguments :
          /\ team_name = a[1]
          /\ top_x_position_in_the_table = a[2]
          /\ desired_number_of_scenarios = a[3]
    /\ teams \in SomeIterationOrders(TeamsOf(tournament_schedule))
    /\ InitCommon

\* a simulator built from any schedule under any scoring rule
InitTable ==
    /\ \E n \in 1..MaxMatches : tournament_schedule \in SchedulesOf(n, TRUE)
    /\ \E rule \in ScoringRules :
          /\ points_for_a_win = rule[1]
          /\ points_for_a_draw = rule[2]
          /\ points_for_a_no_result = rule[3]
    /\ team_name = "A"
    /\ top_x_position_in_the_table = 1
    /\ desired_number_of_scenarios = 1
    /\ teams \in IterationOrders(TeamsOf(tournament_schedule))
    /\ InitCommon

\* the size of the largest outcome space: two winners for each pending match
MaxOutcomes == 2 ^ MaxPending

\* a simulator built from a schedule of wins and pending matches, and a call
\* that asks for as many scenarios as there can be outcomes
InitTwoCalls ==
    /\ \E n \in 1..MaxMatches : tournament_schedule \in SchedulesOf(n, FALSE)
    /\ Cardinality({k \in Rows(tournament_schedule) :
                        tournament_schedule[k].winner = Pending}) <= MaxPending
    /\ points_for_a_win = DefaultRule[1]
    /\ points_for_a_draw = DefaultRule[2]
    /\ points_for_a_no_result = DefaultRule[3]
    /\ team_name \in TeamNames
    /\ top_x_position_in_the_table \in 1..(Cardinality(TeamNames) - 1)
    /\ desired_number_of_scenarios = MaxOutcomes
    /\ teams \in SomeIterationOrders(TeamsOf(tournament_schedule))
    /\ InitCommon

\* the arguments of a constructor call: a schedule of wins and pending matches,
\* complete or with a missing team, and the default scoring rule
InitConstruct ==
    /\ \E n \in 1..MaxMatches :
          tournament_schedule \in SchedulesOf(n, FALSE) \cup SchedulesWithMissingTeam(n)
    /\ points_for_a_win = DefaultRule[1]
    /\ points_for_a_draw = DefaultRule[2]
    /\ points_for_a_no_result = DefaultRule[3]
    /\ team_name = "A"
    /\ top_x_position_in_the_table = 1
    /\ desired_number_of_scenarios = 1
    /\ teams \in IterationOrders(TeamsOf(tournament_schedule))
    /\ argsort = [c \in {} |-> c]
    /\ pc = "new"
    /\ current_table = <<>>
    /\ remaining_matches_in_the_schedule = <<>>
    /\ initial_points_table = <<>>
    /\ candidates_evaluated = 0
    /\ updated_points_table = <<>>
    /\ temporary_schedule_df = <<>>
    /\ list_of_points_tables_for_qualification_scenarios = <<>>
    /\ list_of_remaining_match_result_for_qualification_scenarios = <<>>
    /\ raised = ""
    /\ earlier_calls = <<>>

----------------------------------------------------------------------------
(* Operations *)

\* __init__: _validate_input_types passes (a DataFrame, int points, str column
\* names), the attributes are stored, and _validate_schedule_dataframe_columns
\* passes (the four columns are there); neither looks at a value of a column
Construct ==
    /\ pc = "new"
    /\ pc' = "idle"
    /\ UNCHANGED <<tournament_schedule, points_for_a_win, points_for_a_draw,
                   points_for_a_no_result, team_name, top_x_position_in_the_table,
                   desired_number_of_scenarios, teams, argsort, current_table,
                   remaining_matches_in_the_schedule, initial_points_table,
                   candidates_evaluated, updated_points_table, temporary_schedule_df,
                   list_of_points_tables_for_qualification_scenarios,
                   list_of_remaining_match_result_for_qualification_scenarios, raised,
                   earlier_calls>>

\* the property current_points_table, read by a caller
CurrentPointsTable ==
    /\ pc = "idle"
    /\ LET unsorted == UnsortedPointsTable(tournament_schedule, teams, points_for_a_win,
                                           points_for_a_draw, points_for_a_no_result)
       IN  \E p \in SortOrdersNow(PointsColumn(unsorted), argsort) :
              /\ current_table' = Reordered(unsorted, p)
              /\ argsort' = Remember(argsort, PointsColumn(unsorted), p)
    /\ pc' = "done"
    /\ UNCHANGED <<tournament_schedule, points_for_a_win, points_for_a_draw,
                   points_for_a_no_result, team_name, top_x_position_in_the_table,
                   desired_number_of_scenarios, teams,
                   remaining_matches_in_the_schedule, initial_points_table,
                   candidates_evaluated, updated_points_table, temporary_schedule_df,
                   list_of_points_tables_for_qualification_scenarios,
                   list_of_remaining_match_result_for_qualification_scenarios, raised,
                   earlier_calls>>

\* simulate_the_qualification_scenarios up to its for loop
SimulateStart ==
    /\ pc = "idle"
    /\ remaining_matches_in_the_schedule' =
           FindRemainingMatchesInTheSchedule(tournament_schedule)
    /\ LET unsorted == UnsortedPointsTable(tournament_schedule, teams, points_for_a_win,
                                           points_for_a_draw, points_for_a_no_result)
       IN  \E p \in SortOrdersNow(PointsColumn(unsorted), argsort) :
              /\ initial_points_table' = Reordered(unsorted, p)
              /\ argsort' = Remember(argsort, PointsColumn(unsorted), p)
    /\ pc' = "loop"
    /\ UNCHANGED <<tournament_schedule, points_for_a_win, points_for_a_draw,
                   points_for_a_no_result, team_name, top_x_position_in_the_table,
                   desired_number_of_scenarios, teams, current_table,
                   candidates_evaluated, updated_points_table, temporary_schedule_df,
                   list_of_points_tables_for_qualification_scenarios,
                   list_of_remaining_match_result_for_qualification_scenarios, raised,
                   earlier_calls>>

\* one iteration of the for loop over list_of_possible_results_for_remaining_matches,
\* and the return that follows the break or the last iteration
EvaluateCandidate ==
    /\ pc = "loop"
    /\ LET all == Product(remaining_matches_in_the_schedule)
           possible_results == all[candidates_evaluated + 1]
           first == MatchNumberOfTheFirstRemainingMatch(
                        tournament_schedule, remaining_matches_in_the_schedule)
           filled == FilledSchedule(tournament_schedule, first, possible_results)
           updated == UpdatedPointsTable(initial_points_table,
                          remaining_matches_in_the_schedule, possible_results,
                          points_for_a_win)
       IN  \E p \in SortOrdersNow(PointsColumn(updated), argsort) :
              LET sorted == Reordered(updated, p)
                  qualifies == InTopSlice(team_name, sorted, top_x_position_in_the_table)
                  tables == IF qualifies
                            THEN Append(list_of_points_tables_for_qualification_scenarios,
                                        sorted)
                            ELSE list_of_points_tables_for_qualification_scenarios
              IN  /\ argsort' = Remember(argsort, PointsColumn(updated), p)
                  /\ updated_points_table' = sorted
                  /\ temporary_schedule_df' = filled
                  /\ tournament_schedule' =
                         ScheduleAfterIteration(tournament_schedule, filled)
                  /\ list_of_points_tables_for_qualification_scenarios' = tables
                  /\ list_of_remaining_match_result_for_qualification_scenarios' =
                         IF qualifies
                         THEN Append(
                                list_of_remaining_match_result_for_qualification_scenarios,
                                filled)
                         ELSE list_of_remaining_match_result_for_qualification_scenarios
                  /\ candidates_evaluated' = candidates_evaluated + 1
                  /\ pc' = IF \/ EnoughScenarios(tables, desired_number_of_scenarios)
                              \/ candidates_evaluated + 1 = Len(all)
                           THEN "done" ELSE "loop"
    /\ UNCHANGED <<points_for_a_win, points_for_a_draw, points_for_a_no_result,
                   team_name, top_x_position_in_the_table, desired_number_of_scenarios,
                   teams, current_table, remaining_matches_in_the_schedule,
                   initial_points_table, raised, earlier_calls>>

\* the caller keeps what the call returned and calls
\* simulate_the_qualification_scenarios again, on the same simulator in the same
\* run, for the next position of the table; the lists of the new call start empty
SimulateAgain ==
    /\ pc = "done"
    /\ candidates_evaluated > 0
    /\ earlier_calls = <<>>
    /\ top_x_position_in_the_table < Cardinality(TeamsOf(tournament_schedule))
    /\ earlier_calls' = Append(earlier_calls,
           [top_x_position_in_the_table |-> top_x_position_in_the_table,
            points_tables |-> list_of_points_tables_for_qualification_scenarios,
            schedules |-> list_of_remaining_match_result_for_qualification_scenarios])
    /\ top_x_position_in_the_table' = top_x_position_in_the_table + 1
    /\ pc' = "idle"
    /\ candidates_evaluated' = 0
    /\ remaining_matches_in_the_schedule' = <<>>
    /\ initial_points_table' = <<>>
    /\ updated_points_table' = <<>>
    /\ temporary_schedule_df' = <<>>
    /\ list_of_points_tables_for_qualification_scenarios' = <<>>
    /\ list_of_remaining_match_result_for_qualification_scenarios' = <<>>
    /\ UNCHANGED <<tournament_schedule, points_for_a_win, points_for_a_draw,
                   points_for_a_no_result, team_name, desired_number_of_scenarios,
                   teams, argsort, current_table, raised>>

Next == CurrentPointsTable \/ SimulateStart \/ EvaluateCandidate

Spec == Init /\ [][Next]_vars

NextTable == CurrentPointsTable

SpecTable == InitTable /\ [][NextTable]_vars

NextTwoCalls == SimulateStart \/ EvaluateCandidate \/ SimulateAgain

SpecTwoCalls == InitTwoCalls /\ [][NextTwoCalls]_vars

NextConstruct == Construct \/ CurrentPointsTable

SpecConstruct == InitConstruct /\ [][NextConstruct]_vars

----------------------------------------------------------------------------
(* Vocabulary of the properties *)

\* simulate_the_qualification_scenarios has returned (its loop runs at least once)
SimulateReturned == pc = "done" /\ candidates_evaluated > 0

\* current_points_table has returned
TableReturned == pc = "done" /\ candidates_evaluated = 0

\* the arguments the specification accepts
ValidArguments ==
    /\ team_name \in TeamsOf(tournament_schedule)
    /\ top_x_position_in_the_table >= 1
    /\ top_x_position_in_the_table <= Cardinality(TeamsOf(tournament_schedule))
    /\ desired_number_of_scenarios >= 1

NonIncreasingPoints(table) ==
    \A k \in 1..(Len(table) - 1) : table[k].points >= table[k + 1].points

\* 1-indexed position of a team in a table, 0 when it has no row
PositionOf(team, table) ==
    IF \E k \in 1..Len(table) : table[k].team = team
    THEN CHOOSE k \in 1..Len(table) : table[k].team = team
    ELSE 0

PendingRows(schedule) == {k \in Rows(schedule) : schedule[k].winner = Pending}

\* sum of the column matches_won of a table
RECURSIVE SumOfMatchesWon(_)
SumOfMatchesWon(table) ==
    IF table = <<>> THEN 0 ELSE Head(table).matches_won + SumOfMatchesWon(Tail(table))

\* the first row of the schedule in which the team plays
FirstRowOf(schedule, team) ==
    CHOOSE k \in Rows(schedule) :
        /\ Involves(schedule[k], team)
        /\ \A m \in Rows(schedule) : Involves(schedule[m], team) => k <= m

----------------------------------------------------------------------------
(* Properties of current_points_table, under SpecTable *)

\* C9: in every row of the table current_points_table returns, matches_played =
\* matches_won + matches_lost + matches_drawn + matches_with_no_result, and
\* matches_lost counts only the matches the other participant won: a match
\* recorded as Draw or No Result is in matches_lost of neither participant.
C9_PlayedIsSumOfOutcomes ==
    TableReturned =>
        \A k \in 1..Len(current_table) :
            LET row == current_table[k]
            IN  /\ row.matches_played =
                       row.matches_won + row.matches_lost + row.matches_drawn
                           + row.matches_with_no_result
                /\ row.matches_lost =
                       Cardinality({m \in Rows(tournament_schedule) :
                           /\ Involves(tournament_schedule[m], row.team)
                           /\ tournament_schedule[m].winner
                                  \notin {row.team, "Draw", "No Result", Pending}})

\* C10: in every row of the table current_points_table returns, points =
\* matches_won * points_for_a_win + matches_drawn * points_for_a_draw +
\* matches_with_no_result * points_for_a_no_result; a team without a win, a draw
\* or a no-result has 0 points.
C10_PointsFormula ==
    TableReturned =>
        \A k \in 1..Len(current_table) :
            LET row == current_table[k]
            IN  /\ row.points =
                       (row.matches_won * points_for_a_win)
                       + (row.matches_drawn * points_for_a_draw)
                       + (row.matches_with_no_result * points_for_a_no_result)
                /\ (row.matches_won = 0 /\ row.matches_drawn = 0
                        /\ row.matches_with_no_result = 0) => row.points = 0

\* a table with a winner of one match who drew another, a team with a no-result,
\* and a team with nothing, under a rule that tells draws from no-results
C10_Witness ==
    /\ TableReturned
    /\ points_for_a_draw # points_for_a_no_result
    /\ \E k \in 1..Len(current_table) :
          current_table[k].matches_won >= 1 /\ current_table[k].matches_drawn >= 1
    /\ \E k \in 1..Len(current_table) : current_table[k].matches_with_no_result >= 1
    /\ \E k \in 1..Len(current_table) :
          current_table[k].matches_played >= 1 /\ current_table[k].points = 0

\* C11: in every row of the table current_points_table returns, matches_played +
\* remaining_matches is the number of matches of the schedule in which the row's
\* team is the home or the away team.
C11_PlayedPlusRemainingIsTotal ==
    TableReturned =>
        \A k \in 1..Len(current_table) :
            LET row == current_table[k]
            IN  row.matches_played + row.remaining_matches =
                    Cardinality({m \in Rows(tournament_schedule) :
                        \/ tournament_schedule[m].home = row.team
                        \/ tournament_schedule[m].away = row.team})

\* a table with a team that has played a match and has one to play, next to a
\* team with fewer matches in the schedule
C11_Witness ==
    /\ TableReturned
    /\ \E k \in 1..Len(current_table) :
          current_table[k].matches_played >= 1 /\ current_table[k].remaining_matches >= 1
    /\ \E j, k \in 1..Len(current_table) :
          current_table[j].matches_played + current_table[j].remaining_matches
              < current_table[k].matches_played + current_table[k].remaining_matches

\* C12: the sum of matches_won over the rows of the table current_points_table
\* returns is the number of matches of the schedule whose winner is a team: not
\* Draw, not No Result, not pending.
C12_SumOfWinsIsDecidedBySoleWinner ==
    TableReturned =>
        SumOfMatchesWon(current_table) =
            Cardinality({m \in Rows(tournament_schedule) :
                tournament_schedule[m].winner \notin {"Draw", "No Result", Pending}})

\* a table over a schedule with a match won, a match drawn or without result, and
\* a pending match
C12_Witness ==
    /\ TableReturned
    /\ SumOfMatchesWon(current_table) >= 1
    /\ \E m \in Rows(tournament_schedule) :
          tournament_schedule[m].winner \in {"Draw", "No Result"}
    /\ PendingRows(tournament_schedule) # {}

\* C13: the table current_points_table returns has one row per team of the
\* schedule, in the order of non-increasing points, and of two teams with equal
\* points the one that first plays in an earlier row of the schedule comes first.
C13_StableOrderOfEqualPoints ==
    TableReturned =>
        /\ Len(current_table) = Cardinality(TeamsOf(tournament_schedule))
        /\ {current_table[k].team : k \in 1..Len(current_table)}
               = TeamsOf(tournament_schedule)
        /\ NonIncreasingPoints(current_table)
        /\ \A j, k \in 1..Len(current_table) :
              (/\ j < k
               /\ current_table[j].points = current_table[k].points)
              => FirstRowOf(tournament_schedule, current_table[j].team)
                     <= FirstRowOf(tournament_schedule, current_table[k].team)

----------------------------------------------------------------------------
(* Properties of the constructor, under SpecConstruct *)

\* a row of the schedule has no home team or no away team
HasMissingTeam(schedule) ==
    \E k \in Rows(schedule) :
        schedule[k].home = MissingTeam \/ schedule[k].away = MissingTeam

\* C15: the construction of a simulator from a schedule with a missing home or
\* away team ends with InvalidScheduleDataError, and no standings table is ever
\* computed from such a schedule.
C15_MissingTeamSignalled ==
    (HasMissingTeam(tournament_schedule) /\ pc # "new")
    => /\ raised = "InvalidScheduleDataError"
       /\ current_table = <<>>

----------------------------------------------------------------------------
(* Properties of simulate_the_qualification_scenarios, under Spec *)

\* C1: for a target rank of at least 1, every table in the returned list is
\* ordered by non-increasing points and has the target team at a 1-indexed
\* position of at most top_x_position_in_the_table.
C1_ReturnedScenariosQualify ==
    top_x_position_in_the_table >= 1 =>
        \A i \in 1..Len(list_of_points_tables_for_qualification_scenarios) :
            LET table == list_of_points_tables_for_qualification_scenarios[i]
            IN  /\ NonIncreasingPoints(table)
                /\ PositionOf(team_name, table) >= 1
                /\ PositionOf(team_name, table) <= top_x_position_in_the_table

\* a call that returned a scenario with the target team exactly at the target
\* rank, below the top of a table of three, after discarding another candidate
C1_Witness ==
    /\ SimulateReturned
    /\ ValidArguments
    /\ top_x_position_in_the_table = 2
    /\ Len(list_of_points_tables_for_qualification_scenarios) >= 1
    /\ candidates_evaluated > Len(list_of_points_tables_for_qualification_scenarios)
    /\ \E i \in 1..Len(list_of_points_tables_for_qualification_scenarios) :
          /\ Len(list_of_points_tables_for_qualification_scenarios[i]) = 3
          /\ PositionOf(team_name,
                        list_of_points_tables_for_qualification_scenarios[i]) = 2

\* C3: for desired_number_of_scenarios of at least 1, the list of collected
\* scenarios is never longer than desired_number_of_scenarios, the step that
\* appends the desired_number_of_scenarios-th scenario ends the loop, and no
\* candidate is evaluated once that many are collected.
C3_StopsAtDesiredNumber ==
    /\ [](desired_number_of_scenarios >= 1 =>
             Len(list_of_points_tables_for_qualification_scenarios)
                 <= desired_number_of_scenarios)
    /\ [][desired_number_of_scenarios >= 1 =>
             /\ (Len(list_of_points_tables_for_qualification_scenarios')
                     >= desired_number_of_scenarios) => pc' = "done"
             /\ (Len(list_of_points_tables_for_qualification_scenarios)
                     >= desired_number_of_scenarios) =>
                    candidates_evaluated' = candidates_evaluated]_vars

\* a call that stopped with the desired two scenarios before the last candidate
C3_Witness ==
    /\ SimulateReturned
    /\ desired_number_of_scenarios = 2
    /\ Len(list_of_points_tables_for_qualification_scenarios) = 2
    /\ candidates_evaluated < Len(Product(remaining_matches_in_the_schedule))
    /\ candidates_evaluated > 2

\* C4: no step of current_points_table or of
\* simulate_the_qualification_scenarios changes self.tournament_schedule, the
\* caller's schedule: every row keeps its teams and its winner, a pending row
\* stays pending.
C4_ScheduleUnchanged == [][tournament_schedule' = tournament_schedule]_vars

\* a call that returned a filled schedule while the caller's still has its
\* pending rows
C4_Witness ==
    /\ SimulateReturned
    /\ PendingRows(tournament_schedule) # {}
    /\ Len(list_of_remaining_match_result_for_qualification_scenarios) >= 1
    /\ PendingRows(list_of_remaining_match_result_for_qualification_scenarios[1]) = {}

\* the order of the run's sort is known for this column: it has sorted it, or
\* the column has no equal entries
SortOrderKnown(column) ==
    column \in DOMAIN argsort \/ Cardinality(SortOrders(column)) = 1

KnownSortOrder(column) ==
    IF column \in DOMAIN argsort THEN argsort[column]
    ELSE CHOOSE p \in SortOrders(column) : TRUE

\* the sorted table of a candidate of the outcome space, the matches being `matches'
CandidateTable(matches, candidate) ==
    LET updated == UpdatedPointsTable(initial_points_table, matches, candidate,
                                      points_for_a_win)
    IN  Reordered(updated, KnownSortOrder(PointsColumn(updated)))

CandidateTableKnown(matches, candidate) ==
    SortOrderKnown(PointsColumn(
        UpdatedPointsTable(initial_points_table, matches, candidate, points_for_a_win)))

\* C2: for accepted arguments, the returned tables are those of the first
\* min(desired_number_of_scenarios, Q) qualifying assignments of the cartesian
\* product over the pending matches in ascending match_number order, home team
\* first, in that order, Q being the number of assignments of the product whose
\* table has the target team at a position of at most the target rank (stated
\* for the calls in which the sort order of every candidate's table is known).
C2_FirstQualifyingByMatchNumber ==
    LET schedule == tournament_schedule
        pending == PendingRows(schedule)
        \* the j-th pending row in ascending match_number order
        nth[j \in 1..Cardinality(pending)] ==
            CHOOSE k \in pending :
                Cardinality({m \in pending :
                    schedule[m].match_number < schedule[k].match_number}) = j - 1
        matches == [j \in 1..Cardinality(pending) |->
                       <<schedule[nth[j]].home, schedule[nth[j]].away>>]
        all == Product(matches)
        tables == [k \in 1..Len(all) |-> CandidateTable(matches, all[k])]
        Qualifies(table) ==
            /\ PositionOf(team_name, table) >= 1
            /\ PositionOf(team_name, table) <= top_x_position_in_the_table
        qualifying == SelectSeq(tables, Qualifies)
        expected == IF Len(qualifying) <= desired_number_of_scenarios THEN qualifying
                    ELSE SubSeq(qualifying, 1, desired_number_of_scenarios)
    IN  (/\ SimulateReturned
         /\ ValidArguments
         /\ \A k \in 1..Len(all) : CandidateTableKnown(matches, all[k]))
        => list_of_points_tables_for_qualification_scenarios = expected

\* the set of the entries of a list
SetOf(list) == {list[i] : i \in 1..Len(list)}

\* C14: when a call for position r that asked for at least as many scenarios as
\* the outcome space holds has returned, and a call for position r + 1 on the
\* same simulator, team and number of scenarios has returned, every filled
\* schedule the first call returned is among those the second call returned.
C14_MonotoneInTargetRank ==
    (/\ SimulateReturned
     /\ desired_number_of_scenarios
            >= Len(Product(remaining_matches_in_the_schedule)))
    => \A c \in 1..Len(earlier_calls) :
          (earlier_calls[c].top_x_position_in_the_table + 1
               = top_x_position_in_the_table)
          => SetOf(earlier_calls[c].schedules) \subseteq
                 SetOf(list_of_remaining_match_result_for_qualification_scenarios)

\* two calls returned, the first some scenarios and the second more, among them
\* one whose table has teams on equal points
C14_Witness ==
    /\ SimulateReturned
    /\ Len(earlier_calls) = 1
    /\ Len(earlier_calls[1].schedules) >= 1
    /\ Len(list_of_remaining_match_result_for_qualification_scenarios)
           > Len(earlier_calls[1].schedules)
    /\ \E i \in 1..Len(earlier_calls[1].points_tables) :
          LET table == earlier_calls[1].points_tables[i]
          IN  \E j, k \in 1..Len(table) : j # k /\ table[j].points = table[k].points

\* the row of a team in a table
RowOf(team, table) == table[PositionOf(team, table)]

\* the pending rows of the schedule are its last rows
PendingRowsAreLast(schedule) ==
    \A j, k \in Rows(schedule) :
        (j < k /\ schedule[j].winner = Pending) => schedule[k].winner = Pending

\* C16: in every filled schedule of the returned list no row is pending, every
\* row that is decided in the simulator's schedule is as it is there, every row
\* that is pending there has as winner its home or its away team, and these
\* winners are the scenario's outcomes: the scenario's table credits each team
\* with the wins of the baseline table plus one for each such row it wins.
C16_FilledScheduleCarriesTheOutcomes ==
    \A i \in 1..Len(list_of_remaining_match_result_for_qualification_scenarios) :
        LET filled == list_of_remaining_match_result_for_qualification_scenarios[i]
            table == list_of_points_tables_for_qualification_scenarios[i]
            pending == PendingRows(tournament_schedule)
        IN  /\ Len(filled) = Len(tournament_schedule)
            /\ PendingRows(filled) = {}
            /\ \A k \in Rows(tournament_schedule) \ pending :
                   filled[k] = tournament_schedule[k]
            /\ \A k \in pending :
                   /\ filled[k].winner \in {filled[k].home, filled[k].away}
                   /\ filled[k] = [tournament_schedule[k] EXCEPT
                                       !.winner = filled[k].winner]
            /\ \A r \in 1..Len(table) :
                   table[r].matches_won =
                       RowOf(table[r].team, initial_points_table).matches_won
                       + Cardinality({k \in pending :
                                         filled[k].winner = table[r].team})

\* C17: when the pending rows of the schedule are its last rows, every row of
\* every returned table is the row current_points_table computes for that team
\* from the filled schedule returned with the table: the same matches_played,
\* matches_won, matches_lost, matches_drawn, matches_with_no_result,
\* remaining_matches and points.
C17_TableIsStandingsOfFilledSchedule ==
    PendingRowsAreLast(tournament_schedule) =>
        \A i \in 1..Len(list_of_points_tables_for_qualification_scenarios) :
            LET filled == list_of_remaining_match_result_for_qualification_scenarios[i]
                table == list_of_points_tables_for_qualification_scenarios[i]
            IN  \A r \in 1..Len(table) :
                    table[r] = TeamPointsData(filled, table[r].team, points_for_a_win,
                                   points_for_a_draw, points_for_a_no_result)

\* C5: when every candidate has been evaluated and none qualified, the call
\* ends with NoQualifyingScenariosError (stated for accepted arguments).
C5_NoQualifyingScenariosSignalled ==
    (/\ SimulateReturned
     /\ ValidArguments
     /\ candidates_evaluated = Len(Product(remaining_matches_in_the_schedule))
     /\ list_of_points_tables_for_qualification_scenarios = <<>>)
    => raised = "NoQualifyingScenariosError"

\* C6: a call whose team_name is not a home or away team of the schedule ends
\* with TeamNotFoundError and returns no scenario.
C6_TeamNotFoundSignalled ==
    (SimulateReturned /\ team_name \notin TeamsOf(tournament_schedule))
    => /\ raised = "TeamNotFoundError"
       /\ list_of_points_tables_for_qualification_scenarios = <<>>

\* C7: a call with top_x_position_in_the_table below 1 or above the number of
\* teams, or with desired_number_of_scenarios below 1, ends with a ValueError
\* and returns no scenario.
C7_InvalidArgumentSignalled ==
    (/\ SimulateReturned
     /\ \/ top_x_position_in_the_table < 1
        \/ top_x_position_in_the_table > Cardinality(TeamsOf(tournament_schedule))
        \/ desired_number_of_scenarios < 1)
    => /\ raised = "ValueError"
       /\ list_of_points_tables_for_qualification_scenarios = <<>>

\* the share of decided matches is at most that of the schedule the tests expect
\* to be refused (2 of 6)
AtMostOneThirdDecided(schedule) ==
    3 * (Len(schedule) - Cardinality(PendingRows(schedule))) <= Len(schedule)

\* C8: a call on a schedule whose share of decided matches is below the cutoff
\* ends with TournamentCompletionBelowCutoffError, evaluates no candidate and
\* returns no scenario (stated for the schedules with at most a third of the
\* matches decided).
C8_BelowCutoffSignalled ==
    (AtMostOneThirdDecided(tournament_schedule) /\ current_table = <<>>)
    => /\ candidates_evaluated = 0
       /\ pc = "done" => raised = "TournamentCompletionBelowCutoffError"

============================================================================
